---------------------------- MODULE Spec2Model ----------------------------
(* Model of the Streamlit utility dashboard script src/app.py.              *)
(*                                                                          *)
(* One run of the script is one render cycle.  The script is modelled as a  *)
(* straight-line program whose position is pc; the widgets (selectbox,      *)
(* multiselect, slider, radio) are the points where the user's input is     *)
(* drawn.  The two spreadsheets are the environment (files); load_data is   *)
(* cached by st.cache_data across render cycles (cache).                    *)
(*                                                                          *)
(* Encodings.                                                               *)
(*  - Names (campus, commodity, building, meter, primary use) are positive  *)
(*    integers standing for the names' rank in lexicographic order; a null  *)
(*    cell is Null.  Years are the year numbers.                            *)
(*  - Dates are day ordinals of the year 2023 (1 = 2023-01-01); NaT is the  *)
(*    invalid-date value of pandas; an unparseable cell is Unparseable.     *)
(*  - Floating-point cells are rationals <<n, d>> in lowest terms with      *)
(*    d >= 0: d = 0 encodes the non-numbers, <<0,0>> = NaN/NA and           *)
(*    <<1,0>>, <<-1,0>> = +inf, -inf.  Rounding is not modelled.            *)
EXTENDS Integers, Sequences, FiniteSets, TLC

VARIABLES
    files,                \* the two spreadsheets on disk (never written)
    has_sqft_column,      \* whether utility.xlsx has a BuildingSizeSQFT column
    cache,                \* st.cache_data store of load_data, keyed by path
    pc,                   \* position of the script in the render cycle
    executed,             \* pipeline stages run so far in this render cycle
    data_commodity,       \* app.py:23,29
    data_temperature,     \* app.py:24,36
    selected_campus, available_commodities, selected_commodity,
    available_buildings, selected_buildings,
    available_meters, selected_meters,
    available_years, selected_year_range,
    filtered_data,        \* app.py:78/80
    df_exploded,          \* app.py:104..140
    normalization_method, \* app.py:125
    y_axis_column,        \* app.py:135/141/144
    views,                \* the group-by tables of app.py:150..302
    charts,               \* names of the charts handed to st.plotly_chart
    fault                 \* the exception that ended the cycle, or "none"

vars == <<files, has_sqft_column, cache, pc, executed, data_commodity,
          data_temperature, selected_campus, available_commodities,
          selected_commodity, available_buildings, selected_buildings,
          available_meters, selected_meters, available_years,
          selected_year_range, filtered_data, df_exploded,
          normalization_method, y_axis_column, views, charts, fault>>

-----------------------------------------------------------------------------
(* Bounds of the model *)

\* largest number of rows of utility.xlsx
MaxRows == 2

\* largest number of rows of tempdata.xlsx
MaxTemps == 2

-----------------------------------------------------------------------------
(* Values *)

\* a null cell (NaN / None) of a dimension column
Null == 0

\* pandas NaT, the invalid-date value
NaT == 0

\* a date cell that pd.to_datetime cannot parse
Unparseable == -1

NA == <<0, 0>>

Abs(n) == IF n < 0 THEN -n ELSE n

Sign(n) == IF n < 0 THEN -1 ELSE IF n = 0 THEN 0 ELSE 1

RECURSIVE GCD(_, _)
GCD(a, b) == IF b = 0 THEN a ELSE GCD(b, a % b)

\* the rational n/d in lowest terms; a zero denominator gives inf or NaN
RNorm(n, d) ==
    IF d = 0 THEN <<Sign(n), 0>>
    ELSE LET g == GCD(Abs(n), Abs(d))
             s == IF d < 0 THEN -1 ELSE 1
         IN  <<(s * n) \div g, (s * d) \div g>>

R(n) == <<n, 1>>

IsNA(a) == a = NA

IsNumber(a) == a[2] # 0

\* float division: NaN propagates, x/0 is inf, 0/0 is NaN
RDiv(a, b) ==
    IF IsNA(a) \/ IsNA(b) THEN NA
    ELSE RNorm(a[1] * b[2], a[2] * b[1])

\* float addition: NaN propagates, inf absorbs
RAdd(a, b) ==
    IF IsNA(a) \/ IsNA(b) THEN NA
    ELSE IF a[2] = 0 THEN a
    ELSE IF b[2] = 0 THEN b
    ELSE RNorm(a[1] * b[2] + b[1] * a[2], a[2] * b[2])

\* Series.replace(0, pd.NA)
ReplaceZero(a) == IF a = R(0) THEN NA ELSE a

\* Series.fillna(0)
FillNA(a) == IF IsNA(a) THEN R(0) ELSE a

-----------------------------------------------------------------------------
(* Calendar of 2023 *)

DaysInMonth == <<31, 28, 31, 30, 31, 30, 31, 31, 30, 31, 30, 31>>

RECURSIVE DaysBefore(_)
\* the number of days of the year before month m
DaysBefore(m) == IF m = 1 THEN 0 ELSE DaysBefore(m - 1) + DaysInMonth[m - 1]

\* ordinal of the first day of each month
FirstDays == [m \in 1..12 |-> DaysBefore(m) + 1]

FirstOfMonth(m) == FirstDays[m]

\* the month each day of the year falls in
MonthOfDay ==
    [d \in 1..(DaysBefore(12) + DaysInMonth[12]) |->
        CHOOSE m \in 1..12 :
            /\ FirstDays[m] <= d
            /\ d < FirstDays[m] + DaysInMonth[m]]

\* Series.dt.month: the month (1..12) of a date, null for NaT
MonthOf(d) == IF d = NaT THEN Null ELSE MonthOfDay[d]

\* Series.dt.to_period('M').dt.to_timestamp(): first day of the date's month
MonthKey(d) == IF d = NaT THEN NaT ELSE FirstOfMonth(MonthOf(d))

\* pd.to_datetime(col, errors='coerce') on one cell
ToDatetimeCoerce(raw) == IF raw = Unparseable THEN NaT ELSE raw

\* pd.to_datetime(col, format='%Y-%m') on one cell: "2023-mm" -> first of month
ToDatetimeYearMonth(yyyymm) == FirstOfMonth(yyyymm % 100)

-----------------------------------------------------------------------------
(* Sequences *)

RECURSIVE SortedSeq(_)
\* sorted(S) for a set of integers
SortedSeq(S) ==
    IF S = {} THEN <<>>
    ELSE LET m == CHOOSE x \in S : \A y \in S : x <= y
         IN  <<m>> \o SortedSeq(S \ {m})

Range(s) == {s[i] : i \in DOMAIN s}

RECURSIVE Flatten(_)
Flatten(ss) == IF ss = <<>> THEN <<>> ELSE Head(ss) \o Flatten(Tail(ss))

\* the subsequences of s with at most n elements, order kept
SubSeqsUpTo(s, n) ==
    { [i \in 1..Cardinality(I) |->
          s[CHOOSE j \in I : Cardinality({k \in I : k < j}) = i - 1]] :
      I \in {J \in SUBSET (DOMAIN s) : Cardinality(J) <= n} }

-----------------------------------------------------------------------------
(* The spreadsheets *)

CommodityFile == "utility.xlsx"
TemperatureFile == "tempdata.xlsx"

Bill(campus, commodity, building, meter, year, start, end, total, cost, sqft, use) ==
    [ComplexName |-> campus, Commodity |-> commodity, BuildingName |-> building,
     MeterName |-> meter, Year |-> year, BillStartDate |-> start,
     BillEndDate |-> end, TotalConsumption |-> R(total), TotalCost |-> R(cost),
     BuildingSizeSQFT |-> sqft, PrimaryUse |-> use]

\* The billing rows a utility.xlsx is drawn from.  Campus 1 carries two
\* commodities, campus 2 a single one; building 1 has two meters billed two
\* years apart; the periods cover one day, several days, a whole month, two
\* months, length 0, a negative length (on a row without a year) and an
\* unparseable date.
BillingRows ==
    << Bill(1, 1, 1, 1, 2023, 1, 31, 310, 62, R(100), 1),
       Bill(1, 1, 1, 2, 2025, 30, 33, 10, 4, R(100), 1),
       Bill(1, 1, 2, 3, 2023, 32, 32, 7, 3, R(0), 2),
       Bill(1, 1, 2, 3, Null, 35, 33, 9, 5, NA, 2),
       Bill(1, 2, 1, 1, 2023, 40, 39, 5, 2, R(50), Null),
       Bill(1, 1, 2, 3, 2023, Unparseable, 40, 6, 1, R(0), 2),
       Bill(2, 2, 3, 4, 2024, 58, 60, 7, 3, R(50), 2) >>

\* a row of tempdata.xlsx; the Year-month cell "2023-mm" is written 2023mm
Temp(yyyymm, tavg) == [YearMonth |-> yyyymm, TAVG |-> tavg]

\* The temperature rows a tempdata.xlsx is drawn from: two records for
\* January, the first of them zero, a negative average for February and no
\* record for March.
TemperatureRows ==
    << Temp(202301, R(0)), Temp(202301, R(5)), Temp(202302, R(-4)) >>

\* pd.read_excel gives the rows a RangeIndex
WithIndex(rows) == [i \in DOMAIN rows |-> rows[i] @@ [idx |-> i - 1]]

\* a sheet without the optional BuildingSizeSQFT column
DropSqft(rows) == [i \in DOMAIN rows |-> [rows[i] EXCEPT !.BuildingSizeSQFT = NA]]

-----------------------------------------------------------------------------
(* Loading: app.py:18-39 *)

\* load_data under st.cache_data: the stored table on a hit, the file on a miss
load_data(path) == IF path \in DOMAIN cache THEN cache[path] ELSE files[path]

\* a cache that hands out the stored frame itself, so that it holds whatever
\* the script assigned into it
CacheEntryShared(loaded, mutated) == mutated

\* The entry a path has in the cache after the script has parsed the dates
\* in the frame load_data returned: st.cache_data hands out a copy
CacheEntry(loaded, mutated) == loaded

\* app.py:27-29
ParseBillDates(rows) ==
    [i \in DOMAIN rows |->
        [rows[i] EXCEPT !.BillStartDate = ToDatetimeCoerce(@),
                        !.BillEndDate = ToDatetimeCoerce(@)]]

\* app.py:35-36
ParseYearMonth(rows) ==
    [i \in DOMAIN rows |-> [rows[i] EXCEPT !.YearMonth = ToDatetimeYearMonth(@)]]

-----------------------------------------------------------------------------
(* The filter cascade: app.py:41-80 *)

\* df[col] == value: a null cell equals nothing
Matches(cell, value) == cell # Null /\ cell = value

\* df[col].isin(values)
IsIn(cell, values) == cell # Null /\ cell \in values

\* sorted(df[col].dropna().unique())
SortedUnique(rows, col) ==
    SortedSeq({rows[i][col] : i \in DOMAIN rows} \ {Null})

\* data[data['ComplexName'] == campus]
FilterCampus(rows, campus) ==
    LET P(r) == Matches(r.ComplexName, campus)
    IN  SelectSeq(rows, P)

\* data[data['Commodity'] == commodity]
FilterCommodity(rows, commodity) ==
    LET P(r) == Matches(r.Commodity, commodity)
    IN  SelectSeq(rows, P)

\* app.py:59-62: no building selected restricts nothing
FilterBuildings(rows, buildings) ==
    IF buildings # {}
    THEN LET P(r) == IsIn(r.BuildingName, buildings)
         IN  SelectSeq(rows, P)
    ELSE rows

\* app.py:45
filtered_campus_data == FilterCampus(data_commodity, selected_campus)

\* app.py:52
commodity_filtered_data == FilterCommodity(filtered_campus_data, selected_commodity)

\* app.py:59-62
building_filtered_data == FilterBuildings(commodity_filtered_data, selected_buildings)

\* st.selectbox: any of the options, None when there is none
SelectboxChoices(options) == IF options = <<>> THEN {Null} ELSE Range(options)

\* st.multiselect: any set of the options, none by default
MultiselectChoices(options) == SUBSET Range(options)

\* st.slider over min..max with a range value
SliderChoices(min_year, max_year) ==
    {<<lo, hi>> \in (min_year..max_year) \X (min_year..max_year) : lo <= hi}

\* app.py:69-80
FilterYears(rows, years, range) ==
    IF years # <<>>
    THEN LET P(r) == IsIn(r.Year, range[1]..range[2])
         IN  SelectSeq(rows, P)
    ELSE rows

-----------------------------------------------------------------------------
(* Billing expansion: app.py:97-118 *)

\* pd.date_range(start, end).tolist(): every day from start to end inclusive,
\* the empty list when end < start
DateRange(start, end) == [i \in 1..(end - start + 1) |-> start + i - 1]

\* pd.date_range raises ValueError when start or end is NaT
DateRangeRaises(row) == row.BillStartDate = NaT \/ row.BillEndDate = NaT

\* a mistaken day count that leaves the end day out
BillDaysExclusive(row) ==
    IF row.BillStartDate = NaT \/ row.BillEndDate = NaT THEN NA
    ELSE R(row.BillEndDate - row.BillStartDate)

\* app.py:107: (BillEndDate - BillStartDate).dt.days + 1
BillDays(row) ==
    IF row.BillStartDate = NaT \/ row.BillEndDate = NaT THEN NA
    ELSE R(row.BillEndDate - row.BillStartDate + 1)

\* app.py:104-118 on one billing row: explode gives one row per element of
\* the list and a single row with a null DateRange for an empty list
ExplodeRow(row) ==
    LET dates == DateRange(row.BillStartDate, row.BillEndDate)
        days  == ReplaceZero(BillDays(row))
        more  == [BillDays |-> days,
                  DailyConsumption |-> FillNA(RDiv(row.TotalConsumption, days)),
                  DailyCost |-> FillNA(RDiv(row.TotalCost, days))]
    IN  IF dates = <<>>
        THEN << row @@ more @@ [DateRange |-> NaT] >>
        ELSE [i \in DOMAIN dates |-> row @@ more @@ [DateRange |-> dates[i]]]

Explode(rows) == Flatten([i \in DOMAIN rows |-> ExplodeRow(rows[i])])

-----------------------------------------------------------------------------
(* Weather join: app.py:120-122 *)

\* Series.dt raises AttributeError on a column holding no datetime at all
DtAccessorRaises(rows) == \A i \in DOMAIN rows : rows[i].DateRange = NaT

\* pd.merge(..., on='Year-month', how='left') on one left row: one output
\* row per matching temperature record, in the records' order, and one row
\* with a null TAVG when none matches
MergeRow(left, temps) ==
    LET key     == MonthKey(left.DateRange)
        P(t)    == key # NaT /\ t.YearMonth = key
        matches == SelectSeq(temps, P)
    IN  IF matches = <<>>
        THEN << left @@ [YearMonth |-> key, TAVG |-> NA] >>
        ELSE [i \in DOMAIN matches |->
                 left @@ [YearMonth |-> key, TAVG |-> matches[i].TAVG]]

Merge(rows, temps) == Flatten([i \in DOMAIN rows |-> MergeRow(rows[i], temps)])

-----------------------------------------------------------------------------
(* Normalization: app.py:124-145 *)

None == "None"
WeatherNormalized == "Weather Normalized Energy Use"
EUI == "Energy Use Intensity (EUI)"

NormalizationMethods == {None, WeatherNormalized, EUI}

\* the branch of app.py:131-145 a method takes; TAVG is always a column of
\* the merged frame, BuildingSizeSQFT only if the sheet has it
Branch(method) ==
    IF method = WeatherNormalized THEN WeatherNormalized
    ELSE IF method = EUI /\ has_sqft_column THEN EUI
    ELSE None

\* a division that keeps what the float division gives
NormalizedValueUnguarded(total, denominator) == RDiv(total, denominator)

\* app.py:132-134, 138-140: replace(0, NA), divide, fillna(0)
NormalizedValue(total, denominator) ==
    FillNA(RDiv(total, ReplaceZero(denominator)))

NormalizeRow(row, branch) ==
    IF branch = WeatherNormalized
    THEN [row EXCEPT !.TAVG = ReplaceZero(@)]
         @@ [NormalizedConsumption |-> NormalizedValue(row.TotalConsumption, row.TAVG)]
    ELSE IF branch = EUI
    THEN [row EXCEPT !.BuildingSizeSQFT = ReplaceZero(@)]
         @@ [NormalizedConsumption |->
                 NormalizedValue(row.TotalConsumption, row.BuildingSizeSQFT)]
    ELSE row

Normalize(rows, branch) == [i \in DOMAIN rows |-> NormalizeRow(rows[i], branch)]

YAxisColumn(branch) ==
    IF branch = None THEN "TotalConsumption" ELSE "NormalizedConsumption"

-----------------------------------------------------------------------------
(* Aggregation views: app.py:147-324 *)

RECURSIVE SumSeq(_)
\* Series.sum(): absent values are skipped
SumSeq(values) ==
    IF values = <<>> THEN R(0)
    ELSE RAdd(FillNA(Head(values)), SumSeq(Tail(values)))

\* the cells of the rows whose group key is k, in order
Cells(keys, cells, k) ==
    LET P(i) == keys[i] = k
        at   == SelectSeq([i \in DOMAIN keys |-> i], P)
    IN  [j \in DOMAIN at |-> cells[at[j]]]

HasNull(key) == \E i \in DOMAIN key : key[i] = Null

\* the group keys of df.groupby(keys): rows with a null key are dropped
Groups(keys) == {keys[i] : i \in {j \in DOMAIN keys : ~HasNull(keys[j])}}

\* df.groupby(keys)[col].sum(), from the rows' keys and their cells of col
GroupSum(keys, cells) == [k \in Groups(keys) |-> SumSeq(Cells(keys, cells, k))]

\* GroupBy.first(): the first non-null cell of the group
First(cells) ==
    LET P(c) == ~IsNA(c)
        some == SelectSeq(cells, P)
    IN  IF some = <<>> THEN NA ELSE some[1]

Column(frame, col) == [i \in DOMAIN frame |-> frame[i][col]]

\* app.py:150
consumption_by_month(rows, col) ==
    GroupSum([i \in DOMAIN rows |-> <<rows[i].YearMonth>>], Column(rows, col))

\* app.py:182-185 and 225-228
monthly_consumption_building(rows, col) ==
    GroupSum([i \in DOMAIN rows |->
                 <<rows[i].Year, MonthOf(rows[i].DateRange), rows[i].BuildingName>>],
             Column(rows, col))

\* app.py:269
primaryuse_consumption(rows, col) ==
    GroupSum([i \in DOMAIN rows |-> <<rows[i].Year, rows[i].PrimaryUse>>],
             Column(rows, col))

\* app.py:295-302; no table when the sheet has no BuildingSizeSQFT column
consumption_building_size(rows, col) ==
    LET shown == IF has_sqft_column THEN rows ELSE <<>>
        keys  == [i \in DOMAIN shown |-> <<shown[i].BuildingName>>]
    IN  [k \in Groups(keys) |->
            [y |-> SumSeq(Cells(keys, Column(shown, col), k)),
             TotalCost |-> SumSeq(Cells(keys, Column(shown, "TotalCost"), k)),
             BuildingSizeSQFT |->
                 First(Cells(keys, Column(shown, "BuildingSizeSQFT"), k))]]

ViewNames == {"time_series", "clustered_bar", "timeseries", "primaryuse", "scatter"}

Views(rows, col) ==
    LET by_building == monthly_consumption_building(rows, col)
    IN  [time_series   |-> consumption_by_month(rows, col),
         clustered_bar |-> by_building,
         timeseries    |-> by_building,
         primaryuse    |-> primaryuse_consumption(rows, col),
         scatter       |-> consumption_building_size(rows, col)]

\* a chart is drawn for every view that is not empty, a placeholder otherwise
Charts(v) == {n \in ViewNames : DOMAIN v[n] # {}}

-----------------------------------------------------------------------------
(* The render cycle *)

env == <<files, has_sqft_column>>

selections == <<selected_campus, available_commodities, selected_commodity,
                available_buildings, selected_buildings, available_meters,
                selected_meters, available_years, selected_year_range>>

pipeline == <<filtered_data, df_exploded, normalization_method, y_axis_column,
              views, charts>>

\* a filter that is never found empty
NeverEmpty(rows) == FALSE

\* app.py:83: filtered_data.empty
IsEmpty(rows) == rows = <<>>

Init ==
    /\ has_sqft_column \in BOOLEAN
    /\ \E rows \in SubSeqsUpTo(BillingRows, MaxRows),
          temps \in SubSeqsUpTo(TemperatureRows, MaxTemps) :
          files = (CommodityFile :> WithIndex(IF has_sqft_column THEN rows
                                               ELSE DropSqft(rows)))
                  @@ (TemperatureFile :> temps)
    /\ cache = [path \in {} |-> <<>>]
    /\ pc = "load"
    /\ executed = {}
    /\ data_commodity = <<>>
    /\ data_temperature = <<>>
    /\ selected_campus = Null
    /\ available_commodities = <<>>
    /\ selected_commodity = Null
    /\ available_buildings = <<>>
    /\ selected_buildings = {}
    /\ available_meters = <<>>
    /\ selected_meters = {}
    /\ available_years = <<>>
    /\ selected_year_range = <<Null, Null>>
    /\ filtered_data = <<>>
    /\ df_exploded = <<>>
    /\ normalization_method = None
    /\ y_axis_column = "TotalConsumption"
    /\ views = Views(<<>>, "TotalConsumption")
    /\ charts = {}
    /\ fault = "none"

\* app.py:18-39
LoadData ==
    /\ pc = "load"
    /\ LET commodity   == load_data(CommodityFile)
           temperature == load_data(TemperatureFile)
       IN  /\ data_commodity' = ParseBillDates(commodity)
           /\ data_temperature' = ParseYearMonth(temperature)
           /\ cache' = (CommodityFile :> CacheEntry(commodity, data_commodity'))
                       @@ (TemperatureFile :> CacheEntry(temperature, data_temperature'))
    /\ pc' = "campus"
    /\ UNCHANGED <<env, executed, selections, pipeline, fault>>

\* app.py:41-48
SelectCampus ==
    /\ pc = "campus"
    /\ selected_campus' \in SelectboxChoices(SortedUnique(data_commodity, "ComplexName"))
    /\ available_commodities' = SortedUnique(FilterCampus(data_commodity, selected_campus'), "Commodity")
    /\ pc' = "commodity"
    /\ UNCHANGED <<env, cache, executed, data_commodity, data_temperature,
                   selected_commodity, available_buildings, selected_buildings,
                   available_meters, selected_meters, available_years,
                   selected_year_range, pipeline, fault>>

\* app.py:49-55
SelectCommodity ==
    /\ pc = "commodity"
    /\ selected_commodity' \in SelectboxChoices(available_commodities)
    /\ available_buildings' = SortedUnique(FilterCommodity(filtered_campus_data, selected_commodity'),
                                          "BuildingName")
    /\ pc' = "buildings"
    /\ UNCHANGED <<env, cache, executed, data_commodity, data_temperature,
                   selected_campus, available_commodities, selected_buildings,
                   available_meters, selected_meters, available_years,
                   selected_year_range, pipeline, fault>>

\* app.py:56-64
SelectBuildings ==
    /\ pc = "buildings"
    /\ selected_buildings' \in MultiselectChoices(available_buildings)
    /\ available_meters' = SortedUnique(FilterBuildings(commodity_filtered_data, selected_buildings'),
                                       "MeterName")
    /\ pc' = "meters"
    /\ UNCHANGED <<env, cache, executed, data_commodity, data_temperature,
                   selected_campus, available_commodities, selected_commodity,
                   available_buildings, selected_meters, available_years,
                   selected_year_range, pipeline, fault>>

\* app.py:65-68
SelectMeters ==
    /\ pc = "meters"
    /\ selected_meters' \in MultiselectChoices(available_meters)
    /\ available_years' = SortedUnique(building_filtered_data, "Year")
    /\ pc' = "years"
    /\ UNCHANGED <<env, cache, executed, data_commodity, data_temperature,
                   selected_campus, available_commodities, selected_commodity,
                   available_buildings, selected_buildings, available_meters,
                   selected_year_range, pipeline, fault>>

\* app.py:69-80
SelectYears ==
    /\ pc = "years"
    /\ IF available_years # <<>>
       THEN selected_year_range' \in
                SliderChoices(available_years[1], available_years[Len(available_years)])
       ELSE UNCHANGED selected_year_range
    /\ filtered_data' = FilterYears(building_filtered_data, available_years,
                                    selected_year_range')
    /\ pc' = "check"
    /\ UNCHANGED <<env, cache, executed, data_commodity, data_temperature,
                   selected_campus, available_commodities, selected_commodity,
                   available_buildings, selected_buildings, available_meters,
                   selected_meters, available_years, df_exploded,
                   normalization_method, y_axis_column, views, charts, fault>>

\* app.py:83-85: st.warning, st.stop
StopEmpty ==
    /\ pc = "check"
    /\ IsEmpty(filtered_data)
    /\ pc' = "stopped"
    /\ UNCHANGED <<env, cache, executed, data_commodity, data_temperature,
                   selections, pipeline, fault>>

\* app.py:97-118, every date valid
Expand ==
    /\ pc = "check"
    /\ ~IsEmpty(filtered_data)
    /\ \A i \in DOMAIN filtered_data : ~DateRangeRaises(filtered_data[i])
    /\ df_exploded' = Explode(filtered_data)
    /\ executed' = executed \cup {"expand"}
    /\ pc' = "merge"
    /\ UNCHANGED <<env, cache, data_commodity, data_temperature, selections,
                   filtered_data, normalization_method, y_axis_column, views,
                   charts, fault>>

\* app.py:98-101 raising on a row whose start or end is NaT
ExpandRaises ==
    /\ pc = "check"
    /\ ~IsEmpty(filtered_data)
    /\ \E i \in DOMAIN filtered_data : DateRangeRaises(filtered_data[i])
    /\ fault' = "ValueError"
    /\ pc' = "fault"
    /\ UNCHANGED <<env, cache, executed, data_commodity, data_temperature,
                   selections, pipeline>>

\* app.py:120-122
WeatherJoin ==
    /\ pc = "merge"
    /\ ~DtAccessorRaises(df_exploded)
    /\ df_exploded' = Merge(df_exploded, data_temperature)
    /\ executed' = executed \cup {"merge"}
    /\ pc' = "normalize"
    /\ UNCHANGED <<env, cache, data_commodity, data_temperature, selections,
                   filtered_data, normalization_method, y_axis_column, views,
                   charts, fault>>

\* app.py:121 raising when no row of the exploded frame carries a date
WeatherJoinRaises ==
    /\ pc = "merge"
    /\ DtAccessorRaises(df_exploded)
    /\ fault' = "AttributeError"
    /\ pc' = "fault"
    /\ UNCHANGED <<env, cache, executed, data_commodity, data_temperature,
                   selections, pipeline>>

\* app.py:124-145
NormalizeStep ==
    /\ pc = "normalize"
    /\ normalization_method' \in NormalizationMethods
    /\ df_exploded' = Normalize(df_exploded, Branch(normalization_method'))
    /\ y_axis_column' = YAxisColumn(Branch(normalization_method'))
    /\ executed' = executed \cup {"normalize"}
    /\ pc' = "views"
    /\ UNCHANGED <<env, cache, data_commodity, data_temperature, selections,
                   filtered_data, views, charts, fault>>

\* app.py:147-324
Visualize ==
    /\ pc = "views"
    /\ views' = Views(df_exploded, y_axis_column)
    /\ charts' = Charts(views')
    /\ executed' = executed \cup {"views"}
    /\ pc' = "done"
    /\ UNCHANGED <<env, cache, data_commodity, data_temperature, selections,
                   filtered_data, df_exploded, normalization_method,
                   y_axis_column, fault>>

\* the next user interaction: Streamlit runs the script again from the top,
\* in a new namespace; only the cache outlives the run
Rerun ==
    /\ pc \in {"done", "stopped", "fault"}
    /\ pc' = "load"
    /\ executed' = {}
    /\ data_commodity' = <<>>
    /\ data_temperature' = <<>>
    /\ selected_campus' = Null
    /\ available_commodities' = <<>>
    /\ selected_commodity' = Null
    /\ available_buildings' = <<>>
    /\ selected_buildings' = {}
    /\ available_meters' = <<>>
    /\ selected_meters' = {}
    /\ available_years' = <<>>
    /\ selected_year_range' = <<Null, Null>>
    /\ filtered_data' = <<>>
    /\ df_exploded' = <<>>
    /\ normalization_method' = None
    /\ y_axis_column' = "TotalConsumption"
    /\ views' = Views(<<>>, "TotalConsumption")
    /\ charts' = {}
    /\ fault' = "none"
    /\ UNCHANGED <<env, cache>>

Next ==
    \/ LoadData
    \/ SelectCampus
    \/ SelectCommodity
    \/ SelectBuildings
    \/ SelectMeters
    \/ SelectYears
    \/ StopEmpty
    \/ Expand
    \/ ExpandRaises
    \/ WeatherJoin
    \/ WeatherJoinRaises
    \/ NormalizeStep
    \/ Visualize
    \/ Rerun

Spec == Init /\ [][Next]_vars

-----------------------------------------------------------------------------
(* Properties *)

ValidPeriod(row) ==
    /\ row.BillStartDate # NaT
    /\ row.BillEndDate # NaT
    /\ row.BillStartDate <= row.BillEndDate

ReversedPeriod(row) ==
    /\ row.BillStartDate # NaT
    /\ row.BillEndDate # NaT
    /\ row.BillEndDate < row.BillStartDate

\* the rows of a frame that come from the billing row with index label idx
RowsOf(frame, idx) ==
    LET P(r) == r.idx = idx
    IN  SelectSeq(frame, P)

RECURSIVE SumValues(_)
\* the sum of the values of a group-by table
SumValues(table) ==
    IF DOMAIN table = {} THEN R(0)
    ELSE LET k == CHOOSE x \in DOMAIN table : TRUE
         IN  RAdd(table[k], SumValues([x \in DOMAIN table \ {k} |-> table[x]]))

\* the script is past the filter cascade
Filtered == pc \notin {"load", "campus", "commodity", "buildings", "meters", "years"}

\* C1: when expansion has run, every filtered billing row with valid dates
\* and start <= end has exactly (end - start) + 1 expanded rows, carrying the
\* days start..end in order, and their DailyConsumption sums to the row's
\* TotalConsumption and their DailyCost to its TotalCost.
C1_ExpansionReconstructsTotals ==
    pc = "merge" =>
        \A i \in DOMAIN filtered_data :
            LET row  == filtered_data[i]
                days == RowsOf(df_exploded, row.idx)
            IN  ValidPeriod(row) =>
                    /\ Len(days) = row.BillEndDate - row.BillStartDate + 1
                    /\ \A k \in DOMAIN days :
                          days[k].DateRange = row.BillStartDate + k - 1
                    /\ SumSeq(Column(days, "DailyConsumption")) = row.TotalConsumption
                    /\ SumSeq(Column(days, "DailyCost")) = row.TotalCost

\* expansion has run on a period of several days whose daily share is not a
\* whole number, next to a one-day period
C1_Witness ==
    /\ pc = "merge"
    /\ \E i \in DOMAIN filtered_data :
          /\ ValidPeriod(filtered_data[i])
          /\ filtered_data[i].BillStartDate < filtered_data[i].BillEndDate
          /\ \E k \in DOMAIN df_exploded :
                /\ df_exploded[k].idx = filtered_data[i].idx
                /\ df_exploded[k].DailyConsumption[2] > 1
    /\ \E i \in DOMAIN filtered_data :
          filtered_data[i].BillStartDate = filtered_data[i].BillEndDate

\* C2: every row expansion outputs for a billing row with end < start has
\* DailyConsumption 0 and DailyCost 0, and expansion of valid dates raises
\* nothing.
C2_ReversedPeriodIsZero ==
    /\ pc = "merge" =>
          \A i \in DOMAIN filtered_data :
              ReversedPeriod(filtered_data[i]) =>
                  \A k \in DOMAIN df_exploded :
                      df_exploded[k].idx = filtered_data[i].idx =>
                          /\ df_exploded[k].DailyConsumption = R(0)
                          /\ df_exploded[k].DailyCost = R(0)
    /\ (\A i \in DOMAIN filtered_data : ~DateRangeRaises(filtered_data[i]))
          => fault # "ValueError"

\* C3: in mode None, with every filtered period valid and start <= end, the
\* monthly-total view sums over its month keys to the sum of TotalConsumption
\* over the filtered billing rows.
C3_MonthlyTotalSumsToBilled ==
    ( /\ pc = "done"
      /\ Branch(normalization_method) = None
      /\ \A i \in DOMAIN filtered_data : ValidPeriod(filtered_data[i]) )
    => SumValues(views.time_series) = SumSeq(Column(filtered_data, "TotalConsumption"))

\* the rows the claimed filter keeps: campus, commodity, and each optional
\* dimension with a selection
MatchesSelections(r) ==
    /\ Matches(r.ComplexName, selected_campus)
    /\ Matches(r.Commodity, selected_commodity)
    /\ selected_buildings # {} => IsIn(r.BuildingName, selected_buildings)
    /\ selected_meters # {} => IsIn(r.MeterName, selected_meters)
    /\ available_years # <<>> =>
          IsIn(r.Year, selected_year_range[1]..selected_year_range[2])

\* C4: the filtered table is exactly the billing rows matching the selected
\* campus, commodity, and every optional dimension (building, meter, year)
\* with a selection; with meters selected it holds no row of another meter.
C4_FilteredIsExactlyTheMatches ==
    Filtered => filtered_data = SelectSeq(data_commodity, MatchesSelections)

\* C5: the values offered at each level are the sorted distinct non-null
\* values among the rows matching everything chosen upstream: commodity by
\* campus, building by campus and commodity, meter also by the selected
\* buildings, year also by the selected meters.
C5_OfferedValuesFollowUpstream ==
    pc = "years" =>
        LET ByMeters(r) == selected_meters # {} => IsIn(r.MeterName, selected_meters)
        IN  /\ available_commodities = SortedUnique(filtered_campus_data, "Commodity")
            /\ available_buildings = SortedUnique(commodity_filtered_data, "BuildingName")
            /\ available_meters = SortedUnique(building_filtered_data, "MeterName")
            /\ available_years =
                  SortedUnique(SelectSeq(building_filtered_data, ByMeters), "Year")

\* the TAVG of the first temperature record with a month key, null if none
FirstTAVG(key) ==
    LET P(t) == key # NaT /\ t.YearMonth = key
        m    == SelectSeq(data_temperature, P)
    IN  IF m = <<>> THEN NA ELSE m[1].TAVG

\* C6: the weather join outputs exactly one row per expanded day row, with
\* the TAVG of the first temperature record of the row's month key or a null
\* TAVG, whatever the number of records per month key.
C6_JoinKeepsRowCount ==
    pc = "normalize" =>
        LET expanded == Explode(filtered_data)
        IN  /\ Len(df_exploded) = Len(expanded)
            /\ \A i \in DOMAIN df_exploded :
                  /\ i \in DOMAIN expanded
                  /\ df_exploded[i].idx = expanded[i].idx
                  /\ df_exploded[i].DateRange = expanded[i].DateRange
                  /\ df_exploded[i].TAVG = FirstTAVG(MonthKey(expanded[i].DateRange))

\* the denominator a branch divides a row's TotalConsumption by
Denominator(row, branch) ==
    IF branch = WeatherNormalized THEN row.TAVG ELSE row.BuildingSizeSQFT

\* C7: the normalization step gives every row a number: in the
\* WeatherNormalized and EUI branches 0 where the denominator (TAVG,
\* BuildingSizeSQFT) is zero or absent and TotalConsumption / denominator
\* elsewhere; it raises nothing and keeps the rows.
C7_NormalizationGuardsDenominator ==
    [][ (pc = "normalize" /\ pc' = "views") =>
          LET branch == Branch(normalization_method')
          IN  /\ fault' = "none"
              /\ Len(df_exploded') = Len(df_exploded)
              /\ branch # None =>
                    \A i \in DOMAIN df_exploded :
                        LET d == Denominator(df_exploded[i], branch)
                            v == df_exploded'[i].NormalizedConsumption
                        IN  /\ IsNumber(v)
                            /\ d \in {R(0), NA} => v = R(0)
                            /\ d \notin {R(0), NA} =>
                                  v = RDiv(df_exploded[i].TotalConsumption, d)
      ]_vars

\* weather normalization has run on rows without a usable TAVG and on rows
\* with a negative one
C7_Witness ==
    /\ pc = "views"
    /\ Branch(normalization_method) = WeatherNormalized
    /\ \E i \in DOMAIN df_exploded :
          /\ IsNA(df_exploded[i].TAVG)
          /\ df_exploded[i].NormalizedConsumption = R(0)
          /\ df_exploded[i].TotalConsumption # R(0)
    /\ \E i \in DOMAIN df_exploded : df_exploded[i].NormalizedConsumption[1] < 0

\* C8: once the filters have left zero billing rows, the cycle is at the
\* empty check or stopped: no pipeline stage has run, no chart is drawn and
\* nothing was raised.
C8_EmptyResultHalts ==
    (Filtered /\ filtered_data = <<>>) =>
        /\ pc \in {"check", "stopped"}
        /\ executed = {}
        /\ df_exploded = <<>>
        /\ charts = {}
        /\ fault = "none"

\* the cycle stopped on a year range no billing row of the selection falls in
C8_Witness ==
    /\ pc = "stopped"
    /\ building_filtered_data # <<>>
    /\ filtered_data = <<>>

\* C9: a filtered billing row with an unparseable start or end date holds NaT,
\* the cycle raises nothing, and once expansion has run the row has no
\* expanded day row.
C9_InvalidDateRowIsSkipped ==
    Filtered =>
        \A i \in DOMAIN filtered_data :
            DateRangeRaises(filtered_data[i]) =>
                /\ fault = "none"
                /\ "expand" \in executed =>
                      RowsOf(df_exploded, filtered_data[i].idx) = <<>>

\* the billing rows the selections of the current cycle keep, from the files
FilteredFromFiles ==
    LET billing == ParseBillDates(files[CommodityFile])
        narrowed == FilterBuildings(
                        FilterCommodity(FilterCampus(billing, selected_campus),
                                        selected_commodity),
                        selected_buildings)
    IN  FilterYears(narrowed, SortedUnique(narrowed, "Year"), selected_year_range)

\* the output tables the selections of the current cycle give, from the files
ViewsFromFiles ==
    LET branch == Branch(normalization_method)
        joined == Merge(Explode(FilteredFromFiles),
                        ParseYearMonth(files[TemperatureFile]))
    IN  Views(Normalize(joined, branch), YAxisColumn(branch))

\* C10: whatever cycles have run, the tables load_data holds are the files'
\* tables, and a finished cycle's output tables are those its own selections
\* give on the files' tables.
C10_CyclesShareNoState ==
    /\ \A path \in DOMAIN cache : cache[path] = files[path]
    /\ pc = "done" => views = ViewsFromFiles

\* a cycle has finished with the tables cached; date parsing changed its own
\* copy of both tables and normalization replaced a zero denominator
C10_Witness ==
    /\ pc = "done"
    /\ DOMAIN cache = {CommodityFile, TemperatureFile}
    /\ data_commodity # cache[CommodityFile]
    /\ data_temperature # cache[TemperatureFile]
    /\ Branch(normalization_method) = WeatherNormalized
    /\ \E i \in DOMAIN data_temperature : data_temperature[i].TAVG = R(0)
    /\ \E i \in DOMAIN df_exploded :
          IsNA(df_exploded[i].TAVG) /\ df_exploded[i].YearMonth = 1
=============================================================================
